---- MODULE Spec2Model ----
(***************************************************************************)
(* A model of file_size_analyzer.py: FileAnalyzer.get_file_info,           *)
(* FileAnalyzer.scan_directory with its ThreadPoolExecutor / as_completed  *)
(* collection loop, FileAnalyzer.sort_files, FileAnalyzer.display_errors   *)
(* and main.                                                               *)
(*                                                                         *)
(* Conventions.  A path name is a sequence of character codes, so that     *)
(* str.lower() and string comparison are computed and not assumed.  An     *)
(* Optional[str] is <<>> (None) or <<s>>.  A datetime is the number of     *)
(* seconds it denotes; datetime.fromtimestamp is partial, as it is in      *)
(* CPython.  The filesystem snapshot is fixed in the initial state.        *)
(***************************************************************************)
EXTENDS Integers, Sequences, FiniteSets, TLC

----------------------------------------------------------------------------
(* Bounds of the model *)

MaxChildren == 3
MaxRescanChildren == 2
MaxWorkers == 2
MaxScans == 2
MaxDesc == 3
MaxSortLen == 3

----------------------------------------------------------------------------
(* Values *)

None == <<>>
Some(x) == <<x>>

\* "if file_info.error:" is Python truthiness: None and "" are both false.
Truthy(opt) == opt # None /\ opt[1] # ""

\* Largest timestamp whose local time has a year <= 9999; beyond it
\* datetime.fromtimestamp raises ValueError.
MaxDatetime == 7
\* Largest timestamp the platform localtime() converts; beyond it
\* datetime.fromtimestamp raises OSError (errno EOVERFLOW).
MaxLocaltime == 8
\* datetime.now() at sizing time.
NowT == 5

fromtimestamp(t) ==
  IF t > MaxLocaltime THEN [exc |-> "OSError", msg |-> "EOVERFLOW", value |-> 0]
  ELSE IF t > MaxDatetime THEN [exc |-> "ValueError", msg |-> "year out of range", value |-> 0]
  ELSE [exc |-> "", msg |-> "", value |-> t]

Min(a, b) == IF a < b THEN a ELSE b
Max(a, b) == IF a > b THEN a ELSE b

Front(s) == SubSeq(s, 1, Len(s) - 1)
Last(s) == s[Len(s)]
Reverse(s) == [i \in 1..Len(s) |-> s[Len(s) + 1 - i]]
Range(s) == {s[i] : i \in 1..Len(s)}

----------------------------------------------------------------------------
(* should_ignore: fnmatch over literal characters and '*' (code 42) *)

RECURSIVE fnmatch(_, _)
fnmatch(s, pat) ==
  IF pat = <<>> THEN s = <<>>
  ELSE IF Head(pat) = 42
       THEN fnmatch(s, Tail(pat)) \/ (s # <<>> /\ fnmatch(Tail(s), pat))
       ELSE s # <<>> /\ Head(s) = Head(pat) /\ fnmatch(Tail(s), Tail(pat))

\* str(path) of a child of the scan root "/r"
StrPath(name) == <<47, 114, 47>> \o name

should_ignore(name, patterns) ==
  IF patterns = <<>> THEN FALSE
  ELSE \E i \in 1..Len(patterns) :
         fnmatch(name, patterns[i]) \/ fnmatch(StrPath(name), patterns[i])

----------------------------------------------------------------------------
(* get_file_info *)

FileInfo(path, size, mtime, isdir, error) ==
  [path |-> path, size |-> size, modified_time |-> mtime,
   is_dir |-> isdir, error |-> error]

\* The loop "for item in path.rglob('*')" from item i on, with running total
\* tot.  p.rglobFailAt = k >= 0: the generator raises OSError after yielding
\* k items.  An OSError of rglob or of item.is_file() leaves the loop at the
\* handler of line 93; an OSError of item.stat() is the "continue" of line 92.
RECURSIVE Walk(_, _, _)
Walk(p, i, tot) ==
  IF i > Len(p.sub) THEN tot
  ELSE IF p.rglobFailAt >= 0 /\ i > p.rglobFailAt THEN tot
  ELSE LET item == p.sub[i] IN
       IF item.isfile = "raise" THEN tot
       ELSE IF item.isfile = "yes"
            THEN IF item.st = "ok" THEN Walk(p, i + 1, tot + item.st_size)
                                   ELSE Walk(p, i + 1, tot)
            ELSE Walk(p, i + 1, tot)

\* The walk is cut short: rglob raised, or is_file() of a descendant did.
WalkRaises(p) ==
  \/ p.rglobFailAt >= 0 /\ p.rglobFailAt < Len(p.sub)
  \/ \E i \in 1..Len(p.sub) :
        /\ p.sub[i].isfile = "raise"
        /\ p.rglobFailAt >= 0 => i <= p.rglobFailAt

\* get_file_info without the inner try of lines 86-94: an OSError of the walk
\* reaches the handler of line 110.
get_file_info_NoInnerTry(p) ==
  IF p.st = "err"
  THEN <<"return", FileInfo(p.name, 0, NowT, FALSE, Some(p.msg))>>
  ELSE LET conv == fromtimestamp(p.st_mtime) IN
       IF conv.exc = "OSError"
       THEN <<"return", FileInfo(p.name, 0, NowT, FALSE, Some(conv.msg))>>
       ELSE IF conv.exc # ""
       THEN <<"raise", conv.exc>>
       ELSE IF p.dir
       THEN IF WalkRaises(p)
            THEN <<"return", FileInfo(p.name, 0, NowT, FALSE, Some("EACCES"))>>
            ELSE <<"return", FileInfo(p.name, Walk(p, 1, 0), conv.value, TRUE, None)>>
       ELSE <<"return", FileInfo(p.name, p.st_size, conv.value, FALSE, None)>>

\* The result is <<"return", FileInfo>> or <<"raise", exception>>.
get_file_info(p) ==
  IF p.st = "err"
  THEN <<"return", FileInfo(p.name, 0, NowT, FALSE, Some(p.msg))>>
  ELSE LET conv == fromtimestamp(p.st_mtime) IN
       IF conv.exc = "OSError"
       THEN <<"return", FileInfo(p.name, 0, NowT, FALSE, Some(conv.msg))>>
       ELSE IF conv.exc # ""
       THEN <<"raise", conv.exc>>
       ELSE IF p.dir
       THEN <<"return", FileInfo(p.name, Walk(p, 1, 0), conv.value, TRUE, None)>>
       ELSE <<"return", FileInfo(p.name, p.st_size, conv.value, FALSE, None)>>

----------------------------------------------------------------------------
(* The fold of scan_directory, lines 168-175 *)

\* total_size assigned where it is accumulated
FoldAssignsSize(agg, info) ==
  IF Truthy(info.error)
  THEN [agg EXCEPT !.errors = Append(@, <<info.path, info.error[1]>>)]
  ELSE [agg EXCEPT !.files = Append(@, info),
                   !.total_size = info.size,
                   !.total_files = IF info.is_dir THEN @ ELSE @ + 1]

\* total_files counting directories too
FoldCountsDirs(agg, info) ==
  IF Truthy(info.error)
  THEN [agg EXCEPT !.errors = Append(@, <<info.path, info.error[1]>>)]
  ELSE [agg EXCEPT !.files = Append(@, info),
                   !.total_size = @ + info.size,
                   !.total_files = @ + 1]

Fold(agg, info) ==
  IF Truthy(info.error)
  THEN [agg EXCEPT !.errors = Append(@, <<info.path, info.error[1]>>)]
  ELSE [agg EXCEPT !.files = Append(@, info),
                   !.total_size = @ + info.size,
                   !.total_files = IF info.is_dir THEN @ ELSE @ + 1]

----------------------------------------------------------------------------
(* sort_files *)

lower(name) ==
  [i \in 1..Len(name) |-> IF name[i] \in 65..90 THEN name[i] + 32 ELSE name[i]]

RECURSIVE StrLess(_, _)
StrLess(a, b) ==
  IF b = <<>> THEN FALSE
  ELSE IF a = <<>> THEN TRUE
  ELSE IF Head(a) # Head(b) THEN Head(a) < Head(b)
  ELSE StrLess(Tail(a), Tail(b))

\* key(x) < key(y) for the key function of each branch of sort_files
KeyLess(k, x, y) ==
  IF k = "size" THEN x.size < y.size
  ELSE IF k = "name" THEN StrLess(lower(x.path), lower(y.path))
  ELSE x.modified_time < y.modified_time

\* x goes before the first element whose key is greater than its own
Insert(s, x, k) ==
  LET later == {i \in 1..Len(s) : KeyLess(k, x, s[i])}
      at == IF later = {} THEN Len(s) + 1
            ELSE CHOOSE i \in later : \A j \in later : i <= j
  IN SubSeq(s, 1, at - 1) \o <<x>> \o SubSeq(s, at, Len(s))

RECURSIVE StableSort(_, _)
StableSort(s, k) ==
  IF s = <<>> THEN <<>> ELSE Insert(StableSort(Front(s), k), Last(s), k)

\* reverse=True as a reversal of the ascending outcome
list_sort_ReverseAfter(s, k, reverse) ==
  IF reverse THEN Reverse(StableSort(s, k)) ELSE StableSort(s, k)

\* list.sort(key=..., reverse=...): CPython reverses the list, sorts it
\* stably in ascending order and reverses the outcome.
list_sort(s, k, reverse) ==
  IF reverse THEN Reverse(StableSort(Reverse(s), k)) ELSE StableSort(s, k)

SortKeys == {"size_asc", "size_desc", "name", "history"}

SortedFiles(fl, sort_by) ==
  IF sort_by = "size_asc" THEN list_sort(fl, "size", FALSE)
  ELSE IF sort_by = "size_desc" THEN list_sort(fl, "size", TRUE)
  ELSE IF sort_by = "name" THEN list_sort(fl, "name", FALSE)
  ELSE IF sort_by = "history" THEN list_sort(fl, "history", TRUE)
  ELSE fl

----------------------------------------------------------------------------
(* The filesystem snapshot *)

\* What the filesystem answers for one child of the scan root.
TopPath(name, st, msg, size, mtime, dir, sub, failAt) ==
  [name |-> name, st |-> st, msg |-> msg, st_size |-> size, st_mtime |-> mtime,
   dir |-> dir, sub |-> sub, rglobFailAt |-> failAt]

\* What it answers for one descendant of such a child.
Desc(isfile, st, size) == [isfile |-> isfile, st |-> st, st_size |-> size]

DescKinds ==
  {Desc("yes", "ok", 1), Desc("yes", "ok", 2), Desc("yes", "err", 0),
   Desc("no", "ok", 0), Desc("raise", "err", 0)}

\* str(e) of the OSError of a failed path.stat()
Msgs == {"", "EACCES"}

\* The children a scan root is populated from: two regular files whose names
\* differ in case only, two paths whose stat fails, a directory whose walk
\* meets an unreadable descendant, and a file dated beyond year 9999.
Catalogue ==
  {TopPath(<<97>>, "ok", "", 1, 1, FALSE, <<>>, -1),
   TopPath(<<65>>, "ok", "", 1, 2, FALSE, <<>>, -1),
   TopPath(<<99>>, "err", "EACCES", 0, 0, FALSE, <<>>, -1),
   TopPath(<<101>>, "err", "", 0, 0, FALSE, <<>>, -1),
   TopPath(<<100>>, "ok", "", 0, 1, TRUE,
           <<Desc("yes", "ok", 2), Desc("yes", "err", 0), Desc("no", "ok", 0)>>, -1),
   TopPath(<<118>>, "ok", "", 1, MaxDatetime + 1, FALSE, <<>>, -1)}

RECURSIVE SeqsUpTo(_, _)
SeqsUpTo(S, n) ==
  IF n = 0 THEN {<<>>}
  ELSE LET shorter == SeqsUpTo(S, n - 1)
       IN shorter \cup {Append(s, x) : s \in {t \in shorter : Len(t) = n - 1}, x \in S}

\* A Path object is its name; the snapshot answers for it.
CatalogueNames == {p.name : p \in Catalogue}
FactsTable == [n \in CatalogueNames |-> CHOOSE p \in Catalogue : p.name = n]
Facts(name) == FactsTable[name]

\* Directory listings of at most n children: sibling names are distinct.
Listings(n) ==
  {s \in SeqsUpTo(CatalogueNames, n) :
     \A i, j \in 1..Len(s) : i # j => s[i] # s[j]}

\* The --ignore arguments tried: none, and "a" with "*e".
IgnoreChoices == {<<>>, <<<<97>>, <<42, 101>>>>}

----------------------------------------------------------------------------
(* State *)

VARIABLES
  fs,              \* the snapshot: children of the root in iterdir() order
  files, total_size, total_files, errors,   \* the FileAnalyzer
  pc,              \* where the orchestrating thread is
  ignore_patterns, max_workers,             \* arguments of the running scan
  all_paths,       \* scan_directory's all_paths
  idx,             \* children iterdir() has yielded so far
  submitted,       \* futures created so far by the comprehension of line 159
  tstate,          \* state of each future's work item
  finished,        \* as_completed: futures found finished at its start, not yet yielded
  waiterQ,         \* as_completed: waiter.finished_futures, in finishing order
  yielded,         \* futures the loop of line 165 has taken
  console,         \* what was printed since scan_directory was last called
  pre,             \* history: the aggregate when scan_directory was called
  doneOrder,       \* history: futures in the order they finished
  early,           \* history: futures finished before as_completed looked
  scans,           \* history: calls of scan_directory so far
  listFailed,      \* history: the listing pass of the running scan raised
  arg, ret,        \* get_file_info in isolation: its argument and result
  before, sortKey  \* sort_files in isolation: the aggregate before the call,
                   \* the argument of the call

aggVars == <<files, total_size, total_files, errors>>
scanVars == <<ignore_patterns, max_workers, all_paths, idx, submitted, tstate,
              finished, waiterQ, yielded, pre, doneOrder, early, scans,
              listFailed>>
unitVars == <<arg, ret, before, sortKey>>
vars == <<fs, aggVars, pc, scanVars, console, unitVars>>

Agg == [files |-> files, total_size |-> total_size,
        total_files |-> total_files, errors |-> errors]

SetAgg(a) ==
  /\ files' = a.files
  /\ total_size' = a.total_size
  /\ total_files' = a.total_files
  /\ errors' = a.errors

EmptyAgg == [files |-> <<>>, total_size |-> 0, total_files |-> 0, errors |-> <<>>]

NoConsole == [dirError |-> 0, noFilesInDir |-> 0, noFilesToAnalyze |-> 0,
              summary |-> 0, table |-> 0, errorsShown |-> <<>>, errorsMore |-> 0,
              displayErrors |-> 0, unexpected |-> 0]

NoPath == TopPath(<<>>, "err", "", 0, 0, FALSE, <<>>, -1)

\* FileAnalyzer.__init__, with no scan running
InitAnalyzer ==
  /\ files = <<>> /\ total_size = 0 /\ total_files = 0 /\ errors = <<>>
  /\ pc = "idle"
  /\ ignore_patterns = <<>> /\ max_workers = 1
  /\ all_paths = <<>> /\ idx = 0 /\ submitted = 0 /\ tstate = <<>>
  /\ finished = {} /\ waiterQ = <<>> /\ yielded = {}
  /\ console = NoConsole
  /\ pre = EmptyAgg /\ doneOrder = <<>> /\ early = {} /\ scans = 0
  /\ listFailed = FALSE

InitUnits ==
  /\ arg = NoPath /\ ret = <<"none">>
  /\ before = EmptyAgg /\ sortKey = ""

Init ==
  /\ fs \in Listings(MaxRescanChildren)
  /\ InitAnalyzer
  /\ InitUnits

InitMain ==
  /\ fs \in Listings(MaxChildren)
  /\ InitAnalyzer
  /\ InitUnits

----------------------------------------------------------------------------
(* scan_directory *)

Futures == 1..Len(all_paths)
Running == {i \in DOMAIN tstate : tstate[i] = "running"}
Queued == {i \in DOMAIN tstate : tstate[i] = "queued"}
AllTasksDone == \A i \in DOMAIN tstate : tstate[i] = "done"

\* The call: arguments are bound, locals are fresh.
EnterScan ==
  /\ scans' = scans + 1
  /\ pre' = Agg
  /\ ignore_patterns' \in IgnoreChoices
  /\ max_workers' \in 1..MaxWorkers
  /\ all_paths' = <<>> /\ idx' = 0 /\ submitted' = 0 /\ tstate' = <<>>
  /\ finished' = {} /\ waiterQ' = <<>> /\ yielded' = {}
  /\ doneOrder' = <<>> /\ early' = {} /\ listFailed' = FALSE
  /\ console' = NoConsole
  /\ pc' = "listing"
  /\ UNCHANGED <<fs, aggVars, unitVars>>

\* A caller other than main calls scan_directory on the analyzer it holds.
CallScan ==
  /\ pc \in {"idle", "returned"}
  /\ scans < MaxScans
  /\ EnterScan

\* One iteration of "for item in directory.iterdir()", lines 126-128
ListStep ==
  /\ pc = "listing"
  /\ idx < Len(fs)
  /\ idx' = idx + 1
  /\ all_paths' = IF should_ignore(fs[idx + 1], ignore_patterns)
                  THEN all_paths ELSE Append(all_paths, fs[idx + 1])
  /\ UNCHANGED <<fs, aggVars, pc, ignore_patterns, max_workers, submitted, tstate,
                 finished, waiterQ, yielded, pre, doneOrder, early, scans,
                 listFailed, console, unitVars>>

\* The handler of line 129 without its return: the second pass runs over the
\* children collected so far.
ListFailNoReturn ==
  /\ pc = "listing"
  /\ console' = [console EXCEPT !.dirError = @ + 1]
  /\ listFailed' = TRUE
  /\ IF all_paths = <<>>
     THEN pc' = "returned" /\ UNCHANGED tstate
     ELSE pc' = "submitting" /\ tstate' = [i \in 1..Len(all_paths) |-> "new"]
  /\ UNCHANGED <<fs, aggVars, ignore_patterns, max_workers, all_paths, idx,
                 submitted, finished, waiterQ, yielded, pre, doneOrder,
                 early, scans, unitVars>>

\* iterdir() raises OSError, at its start or after any number of children:
\* lines 129-131
ListFail ==
  /\ pc = "listing"
  /\ console' = [console EXCEPT !.dirError = @ + 1]
  /\ listFailed' = TRUE
  /\ pc' = "returned"
  /\ UNCHANGED <<fs, aggVars, ignore_patterns, max_workers, all_paths, idx,
                 submitted, tstate, finished, waiterQ, yielded, pre, doneOrder,
                 early, scans, unitVars>>

\* iterdir() is exhausted: lines 133-135, or on to the second pass
ListEnd ==
  /\ pc = "listing"
  /\ idx = Len(fs)
  /\ IF all_paths = <<>>
     THEN /\ console' = [console EXCEPT !.noFilesInDir = @ + 1]
          /\ pc' = "returned"
          /\ UNCHANGED tstate
     ELSE /\ pc' = "submitting"
          /\ tstate' = [i \in 1..Len(all_paths) |-> "new"]
          /\ UNCHANGED console
  /\ UNCHANGED <<fs, aggVars, ignore_patterns, max_workers, all_paths, idx,
                 submitted, finished, waiterQ, yielded, pre, doneOrder, early,
                 scans, listFailed, unitVars>>

\* executor.submit(self.get_file_info, path) for the next path, line 160
Submit ==
  /\ pc = "submitting"
  /\ submitted < Len(all_paths)
  /\ submitted' = submitted + 1
  /\ tstate' = [tstate EXCEPT ![submitted + 1] = "queued"]
  /\ UNCHANGED <<fs, aggVars, pc, ignore_patterns, max_workers, all_paths, idx,
                 finished, waiterQ, yielded, pre, doneOrder, early, scans,
                 listFailed, console, unitVars>>

\* A pool thread takes the oldest work item of the queue; at most max_workers
\* threads exist.
TaskStart ==
  /\ pc \in {"submitting", "collecting", "joining", "unwinding"}
  /\ Cardinality(Running) < max_workers
  /\ \E i \in Queued :
       /\ \A j \in Queued : i <= j
       /\ tstate' = [tstate EXCEPT ![i] = "running"]
  /\ UNCHANGED <<fs, aggVars, pc, ignore_patterns, max_workers, all_paths, idx,
                 submitted, finished, waiterQ, yielded, pre, doneOrder, early,
                 scans, listFailed, console, unitVars>>

\* get_file_info returns or raises in a pool thread and the future is set;
\* a waiter installed by as_completed is told.
TaskFinish ==
  /\ pc \in {"submitting", "collecting", "joining", "unwinding"}
  /\ \E i \in Running :
       /\ tstate' = [tstate EXCEPT ![i] = "done"]
       /\ doneOrder' = Append(doneOrder, i)
       /\ waiterQ' = IF pc = "collecting" THEN Append(waiterQ, i) ELSE waiterQ
  /\ UNCHANGED <<fs, aggVars, pc, ignore_patterns, max_workers, all_paths, idx,
                 submitted, finished, yielded, pre, early, scans, listFailed,
                 console, unitVars>>

\* as_completed(future_to_path) starts: the futures already finished are put
\* in a set, a waiter is installed on the others.
AsCompletedStart ==
  /\ pc = "submitting"
  /\ submitted = Len(all_paths)
  /\ finished' = {i \in Futures : tstate[i] = "done"}
  /\ early' = {i \in Futures : tstate[i] = "done"}
  /\ pc' = "collecting"
  /\ UNCHANGED <<fs, aggVars, ignore_patterns, max_workers, all_paths, idx,
                 submitted, tstate, waiterQ, yielded, pre, doneOrder, scans,
                 listFailed, console, unitVars>>

\* The futures as_completed may yield next.  Those of the initial set come
\* first, in the iteration order of a set of objects, which is any order; the
\* others come in the order the waiter was told.
NextYieldNoReverse ==
  IF finished # {} THEN finished
  ELSE IF waiterQ # <<>> THEN {Last(waiterQ)} ELSE {}

NextYield ==
  IF finished # {} THEN finished
  ELSE IF waiterQ # <<>> THEN {Head(waiterQ)} ELSE {}

\* as_completed's "while pending" has nothing left to wait for
LoopDoneNoWait == finished = {} /\ waiterQ = <<>>

LoopDone == yielded = Futures

\* One iteration of the loop of line 165: future.result() and the fold under
\* self.lock, or the exception of the task re-raised in the orchestrator.
Collect ==
  /\ pc = "collecting"
  /\ \E f \in NextYield :
       LET r == get_file_info(Facts(all_paths[f])) IN
       /\ finished' = finished \ {f}
       /\ waiterQ' = IF f \in finished THEN waiterQ
                     ELSE SelectSeq(waiterQ, LAMBDA g : g # f)
       /\ yielded' = yielded \cup {f}
       /\ IF r[1] = "raise"
          THEN pc' = "unwinding" /\ UNCHANGED aggVars
          ELSE pc' = pc /\ SetAgg(Fold(Agg, r[2]))
  /\ UNCHANGED <<fs, ignore_patterns, max_workers, all_paths, idx, submitted,
                 tstate, pre, doneOrder, early, scans, listFailed, console,
                 unitVars>>

\* The loop of line 165 ends.
LoopExit ==
  /\ pc = "collecting"
  /\ LoopDone
  /\ pc' = "joining"
  /\ UNCHANGED <<fs, aggVars, scanVars, console, unitVars>>

\* The executor's __exit__ has joined the pool (shutdown(wait=True)), the
\* progress display is closed and scan_directory returns.
ScanReturn ==
  /\ pc = "joining"
  /\ AllTasksDone
  /\ pc' = "returned"
  /\ UNCHANGED <<fs, aggVars, scanVars, console, unitVars>>

\* An exception leaves the "with" blocks: the executor still joins the pool,
\* then scan_directory is left by the exception.
Unwind ==
  /\ pc = "unwinding"
  /\ AllTasksDone
  /\ pc' = "raised"
  /\ UNCHANGED <<fs, aggVars, scanVars, console, unitVars>>

ScanStep ==
  \/ ListStep
  \/ ListFail
  \/ ListEnd
  \/ Submit
  \/ TaskStart
  \/ TaskFinish
  \/ AsCompletedStart
  \/ Collect
  \/ LoopExit
  \/ ScanReturn
  \/ Unwind

----------------------------------------------------------------------------
(* sort_files *)

sort_files(sort_by) ==
  /\ files' = SortedFiles(files, sort_by)
  /\ UNCHANGED <<total_size, total_files, errors>>

\* The frame of the last scan_directory call is gone: its arguments and
\* locals, the futures of its executor and the history kept about it.
ScanFrameGone ==
  /\ ignore_patterns' = <<>> /\ max_workers' = 1
  /\ all_paths' = <<>> /\ idx' = 0 /\ submitted' = 0 /\ tstate' = <<>>
  /\ finished' = {} /\ waiterQ' = <<>> /\ yielded' = {}
  /\ pre' = EmptyAgg /\ doneOrder' = <<>> /\ early' = {} /\ listFailed' = FALSE

\* A caller other than main sorts between scans.
SortFiles ==
  /\ pc \in {"idle", "returned"}
  /\ \E k \in SortKeys : sort_files(k)
  /\ pc' = "idle"
  /\ ScanFrameGone
  /\ UNCHANGED <<fs, scans, console, unitVars>>

----------------------------------------------------------------------------
(* main *)

\* display_errors, lines 263-271: what it prints
display_errors(errs, con) ==
  IF errs # <<>>
  THEN [con EXCEPT !.displayErrors = @ + 1,
                   !.errorsShown = SubSeq(errs, 1, Min(10, Len(errs))),
                   !.errorsMore = IF Len(errs) > 10 THEN Len(errs) - 10 ELSE 0]
  ELSE con

\* line 355
MainScan ==
  /\ pc = "idle"
  /\ scans = 0
  /\ EnterScan

\* lines 357-359
MainNoFiles ==
  /\ pc = "returned"
  /\ files = <<>>
  /\ console' = [console EXCEPT !.noFilesToAnalyze = @ + 1]
  /\ pc' = "exit0"
  /\ UNCHANGED <<fs, aggVars, scanVars, unitVars>>

\* lines 361-374: sort, summary, table, errors
MainReport ==
  /\ pc = "returned"
  /\ files # <<>>
  /\ \E k \in SortKeys : sort_files(k)
  /\ console' = display_errors(errors,
                   [console EXCEPT !.summary = @ + 1, !.table = @ + 1])
  /\ pc' = "exit0"
  /\ UNCHANGED <<fs, scanVars, unitVars>>

\* lines 379-381
MainUnexpected ==
  /\ pc = "raised"
  /\ console' = [console EXCEPT !.unexpected = @ + 1]
  /\ pc' = "exit1"
  /\ UNCHANGED <<fs, aggVars, scanVars, unitVars>>

----------------------------------------------------------------------------
(* Specifications *)

\* A FileAnalyzer under any caller: scans and sorts in any order.
Next ==
  \/ CallScan
  \/ ScanStep
  \/ SortFiles

Spec == Init /\ [][Next]_vars

\* The program: main.
NextMain ==
  \/ MainScan
  \/ ScanStep
  \/ MainNoFiles
  \/ MainReport
  \/ MainUnexpected

SpecMain == InitMain /\ [][NextMain]_vars

----------------------------------------------------------------------------
(* get_file_info in isolation, over every bounded path *)

Mtimes == {1, 2, MaxDatetime + 1, MaxLocaltime + 1}

PathInputs ==
  {TopPath(<<99>>, "err", m, 0, 0, FALSE, <<>>, -1) : m \in Msgs}
  \cup {TopPath(<<97>>, "ok", "", s, t, FALSE, <<>>, -1) : s \in 0..2, t \in Mtimes}
  \cup UNION {{TopPath(<<100>>, "ok", "", 1, t, TRUE, sub, f) :
                 t \in Mtimes, f \in (-1)..Len(sub)} :
              sub \in SeqsUpTo(DescKinds, MaxDesc)}

InitInfo ==
  /\ fs = <<>>
  /\ InitAnalyzer
  /\ arg \in PathInputs
  /\ ret = <<"none">>
  /\ before = EmptyAgg /\ sortKey = ""

ApplyGetFileInfo ==
  /\ ret = <<"none">>
  /\ ret' = get_file_info(arg)
  /\ UNCHANGED <<fs, aggVars, pc, scanVars, console, arg, before, sortKey>>

NextInfo == ApplyGetFileInfo

SpecInfo == InitInfo /\ [][NextInfo]_vars

----------------------------------------------------------------------------
(* sort_files in isolation, over every bounded list of successful Entries *)

SortEntries ==
  {FileInfo(n, s, t, FALSE, None) : n \in {<<97>>, <<65>>, <<98>>}, s \in 1..2, t \in 1..2}
  \cup {FileInfo(<<66>>, 2, 1, TRUE, None)}

RECURSIVE SumSizes(_)
SumSizes(fl) == IF fl = <<>> THEN 0 ELSE fl[1].size + SumSizes(Tail(fl))

CountFiles(fl) == Cardinality({i \in 1..Len(fl) : ~fl[i].is_dir})

InitSort ==
  /\ fs = <<>>
  /\ files \in SeqsUpTo(SortEntries, MaxSortLen)
  /\ total_size = SumSizes(files)
  /\ total_files = CountFiles(files)
  /\ errors \in {<<>>, <<<<<<99>>, "EACCES">>>>}
  /\ pc = "idle"
  /\ ignore_patterns = <<>> /\ max_workers = 1
  /\ all_paths = <<>> /\ idx = 0 /\ submitted = 0 /\ tstate = <<>>
  /\ finished = {} /\ waiterQ = <<>> /\ yielded = {}
  /\ console = NoConsole
  /\ pre = EmptyAgg /\ doneOrder = <<>> /\ early = {} /\ scans = 0
  /\ listFailed = FALSE
  /\ arg = NoPath /\ ret = <<"none">>
  /\ before = EmptyAgg /\ sortKey = ""

ApplySort ==
  /\ sortKey = ""
  /\ \E k \in SortKeys :
       /\ sort_files(k)
       /\ sortKey' = k
  /\ before' = Agg
  /\ UNCHANGED <<fs, pc, scanVars, console, arg, ret>>

NextSort == ApplySort

SpecSort == InitSort /\ [][NextSort]_vars

----------------------------------------------------------------------------
(* Claims *)

Count(s, x) == Cardinality({i \in 1..Len(s) : s[i] = x})
SameBag(a, b) ==
  /\ Len(a) = Len(b)
  /\ \A x \in Range(a) \cup Range(b) : Count(a, x) = Count(b, x)

Info(f) == get_file_info(Facts(all_paths[f]))

\* The run with one worker: every path sized and folded in submission order.
RECURSIVE SeqRun(_, _, _)
SeqRun(agg, paths, i) ==
  IF i > Len(paths) THEN agg
  ELSE LET r == get_file_info(Facts(paths[i])) IN
       IF r[1] = "raise" THEN agg
       ELSE SeqRun(Fold(agg, r[2]), paths, i + 1)

Dispatched == ~listFailed /\ submitted > 0

\* C1: whatever the pool width and the interleaving of the workers, a scan
\* that returns leaves the total_size, the total_files and the number of
\* errors of the sequential run over the same candidates; files and errors
\* hold the same elements, in some order.
C1_SameAsSequential ==
  (pc = "returned" /\ Dispatched) =>
     LET ref == SeqRun(pre, all_paths, 1) IN
     /\ total_size = ref.total_size
     /\ total_files = ref.total_files
     /\ Len(errors) = Len(ref.errors)
     /\ SameBag(files, ref.files)
     /\ SameBag(errors, ref.errors)

C1_Witness ==
  /\ pc = "returned" /\ Dispatched
  /\ max_workers = 2
  /\ Len(all_paths) = 3
  /\ doneOrder = <<2, 1, 3>>
  /\ files # SeqRun(pre, all_paths, 1).files
  /\ errors # <<>>
  /\ total_size = 3

\* C3: total_size is the sum of the sizes of the Entries of files and
\* total_files the number of those that are no directories, in every state;
\* and a first scan, with no ignore pattern, of a root that holds only
\* readable regular files ends with the sum of their sizes and their number.
RECURSIVE SumStSizes(_)
SumStSizes(paths) ==
  IF paths = <<>> THEN 0 ELSE Facts(paths[1]).st_size + SumStSizes(Tail(paths))

PlainFile(p) == p.st = "ok" /\ ~p.dir /\ fromtimestamp(p.st_mtime).exc = ""

C3_TotalsMatchFiles ==
  /\ total_size = SumSizes(files)
  /\ total_files = CountFiles(files)
  /\ (/\ pc = "returned" /\ ~listFailed /\ scans = 1
      /\ ignore_patterns = <<>>
      /\ \A i \in 1..Len(fs) : PlainFile(Facts(fs[i])))
     => (total_size = SumStSizes(fs) /\ total_files = Len(fs))

C3_Witness ==
  /\ pc = "idle" /\ scans = 2
  /\ Len(files) >= 4
  /\ \E i \in 1..Len(files) : files[i].is_dir
  /\ total_files >= 2
  /\ total_size >= 5

\* C4: when scan_directory returns after dispatching, every candidate was
\* sized once and folded once, no task is queued or running, and files and
\* errors together grew by the number of candidates; main reads the
\* aggregate only from there on.
C4_AllFoldedAtReturn ==
  (pc \in {"returned", "exit0"} /\ Dispatched) =>
     /\ AllTasksDone
     /\ DOMAIN tstate = Futures
     /\ yielded = Futures
     /\ Len(doneOrder) = Len(all_paths)
     /\ Range(doneOrder) = Futures
     /\ Len(files) + Len(errors)
          = Len(pre.files) + Len(pre.errors) + Len(all_paths)

C4_Witness ==
  /\ pc = "exit0" /\ Dispatched
  /\ Len(all_paths) = 3
  /\ max_workers = 2
  /\ console.table = 1
  /\ errors # <<>>

\* C2: an Entry with a non-null error descriptor has size 0 and is folded
\* into errors and into nothing else, whatever the descriptor, the empty
\* string included: no Entry of files carries a descriptor, and errors grew
\* by one for each folded Entry that carries one.
ErrorEntries == {f \in yielded : Info(f)[1] = "return" /\ Info(f)[2].error # None}

C2_ErrorEntriesOnlyInErrors ==
  /\ \A f \in Futures :
       (Info(f)[1] = "return" /\ Info(f)[2].error # None) => Info(f)[2].size = 0
  /\ \A i \in 1..Len(files) : files[i].error = None
  /\ (pc \in {"collecting", "joining", "returned"} /\ Dispatched) =>
        Len(errors) = Len(pre.errors) + Cardinality(ErrorEntries)

\* C5: a scan that ends with errors recorded has them shown by main: main
\* ends having run display_errors, which printed the first 10 messages and
\* the number of the others.
C5_ErrorsShown ==
  (pc = "exit0" /\ errors # <<>>) =>
     /\ console.displayErrors = 1
     /\ console.errorsShown = SubSeq(errors, 1, Min(10, Len(errors)))
     /\ console.errorsMore = Max(0, Len(errors) - 10)

\* C6: the size of a directory's Entry is the sum of the sizes of the
\* regular files of its subtree whose metadata can be read; a descendant
\* whose is_file() or stat() fails counts zero and the others are counted.
\* (The subtree is enumerated to its end: rglob itself does not fail.)
RECURSIVE ReadableTotal(_)
ReadableTotal(sub) ==
  IF sub = <<>> THEN 0
  ELSE (IF sub[1].isfile = "yes" /\ sub[1].st = "ok" THEN sub[1].st_size ELSE 0)
       + ReadableTotal(Tail(sub))

C6_DescendantFailureIsLocal ==
  (ret[1] = "return" /\ arg.st = "ok" /\ arg.dir /\ ret[2].error = None
     /\ arg.rglobFailAt = -1)
  => ret[2].size = ReadableTotal(arg.sub)

\* The descendants the walk has dealt with when it ends or is cut short
Walked(p) ==
  LET cuts == {i \in 1..Len(p.sub) : p.sub[i].isfile = "raise"}
                 \cup (IF p.rglobFailAt >= 0 THEN {p.rglobFailAt + 1} ELSE {})
      n == IF cuts = {} THEN Len(p.sub)
           ELSE (CHOOSE i \in cuts : \A j \in cuts : i <= j) - 1
  IN SubSeq(p.sub, 1, Min(n, Len(p.sub)))

SuccessfulDirEntry(p, info) ==
  /\ info.error = None
  /\ info.is_dir
  /\ info.size = ReadableTotal(Walked(p))
  /\ info.modified_time = p.st_mtime
  /\ info.path = p.name

\* C7 as stated: an error Entry only when path.stat() fails; a directory
\* whose stat succeeded yields a successful directory Entry with the partial
\* total and its own modified time, whatever fails in the walk.
C7_ErrorOnlyWhenStatFails ==
  ret[1] = "return" =>
     /\ ret[2].error # None => arg.st = "err"
     /\ (arg.st = "ok" /\ arg.dir /\ ret[2].error = None)
          => SuccessfulDirEntry(arg, ret[2])

\* C7, amended: an error Entry only when path.stat() fails or the
\* conversion of st_mtime by datetime.fromtimestamp raises OSError; once both
\* succeeded, a directory yields a successful directory Entry with the
\* partial total (0 if nothing was counted) and its own modified time,
\* whatever fails in the walk.
C7_ErrorOnlyAtTopLevel ==
  ret[1] = "return" =>
     /\ ret[2].error # None =>
          (arg.st = "err" \/ fromtimestamp(arg.st_mtime).exc = "OSError")
     /\ (arg.st = "ok" /\ fromtimestamp(arg.st_mtime).exc = "" /\ arg.dir)
          => SuccessfulDirEntry(arg, ret[2])

C7_Witness ==
  /\ ret[1] = "return"
  /\ arg.st = "ok" /\ arg.dir
  /\ Len(arg.sub) = 3
  /\ arg.sub[1].isfile = "yes" /\ arg.sub[1].st = "ok"
  /\ arg.sub[2].isfile = "raise"
  /\ arg.sub[3].isfile = "yes" /\ arg.sub[3].st = "ok"
  /\ arg.rglobFailAt = -1
  /\ ret[2].error = None /\ ret[2].is_dir
  /\ ret[2].size = arg.sub[1].st_size

\* C8: when the listing pass raises, after any number of children,
\* scan_directory prints one directory error and returns: no future was
\* submitted, and files, errors, total_size and total_files are those of
\* before the call.
C8_ListingFailureLeavesAggregate ==
  listFailed =>
     /\ pc = "returned"
     /\ submitted = 0 /\ tstate = <<>>
     /\ yielded = {} /\ doneOrder = <<>>
     /\ Agg = pre
     /\ console.dirError = 1

C8_Witness ==
  /\ listFailed /\ pc = "returned"
  /\ scans = 2
  /\ idx = 2 /\ Len(all_paths) = 2
  /\ files # <<>> /\ errors # <<>>

\* C9: sort_files leaves a permutation of files in which Entries of equal
\* key keep their order, for the descending keys too; sizes do not increase
\* under size_desc and do not decrease under size_asc, lower-cased names do
\* not decrease under name (and modified times do not increase under
\* history); total_size, total_files and errors are unchanged.
KeyOf(sort_by) ==
  IF sort_by \in {"size_asc", "size_desc"} THEN "size"
  ELSE IF sort_by = "name" THEN "name" ELSE "history"

SameKey(k, x, y) == ~KeyLess(k, x, y) /\ ~KeyLess(k, y, x)

C9_StableTotalSort ==
  sortKey # "" =>
     LET k == KeyOf(sortKey)
         inp == before.files
         WithKeyOf(fl, e) == SelectSeq(fl, LAMBDA x : SameKey(k, x, e))
     IN
     /\ SameBag(files, inp)
     /\ \A e \in Range(inp) : WithKeyOf(files, e) = WithKeyOf(inp, e)
     /\ \A i, j \in 1..Len(files) : i < j =>
          IF sortKey \in {"size_desc", "history"}
          THEN ~KeyLess(k, files[i], files[j])
          ELSE ~KeyLess(k, files[j], files[i])
     /\ sortKey = "size_desc" =>
          \A i \in 1..(Len(files) - 1) : files[i].size >= files[i + 1].size
     /\ sortKey = "size_asc" =>
          \A i \in 1..(Len(files) - 1) : files[i].size <= files[i + 1].size
     /\ total_size = before.total_size
     /\ total_files = before.total_files
     /\ errors = before.errors

C9_Witness ==
  /\ sortKey = "size_desc"
  /\ Len(files) = 3
  /\ before.files[1].size = 1 /\ before.files[2].size = 2 /\ before.files[3].size = 1
  /\ before.files[1] # before.files[3]
  /\ files = <<before.files[2], before.files[1], before.files[3]>>
  /\ errors # <<>>

\* Where the scan under way put the Entry of future f in files
FilePos(f) ==
  CHOOSE i \in (Len(pre.files) + 1)..Len(files) :
     files[i].path = all_paths[f]

InFiles(f) ==
  /\ f \in yielded
  /\ \E i \in (Len(pre.files) + 1)..Len(files) : files[i].path = all_paths[f]

DonePos(f) == CHOOSE i \in 1..Len(doneOrder) : doneOrder[i] = f

Unsorted == pc \in {"collecting", "joining", "unwinding", "returned", "raised"}

\* C10 as stated: before any sort, the Entries a scan appended to files are
\* in the order in which their sizing tasks completed.
C10_FilesInCompletionOrder ==
  (Unsorted /\ ~listFailed) =>
     \A a, b \in Futures :
        (InFiles(a) /\ InFiles(b) /\ DonePos(a) < DonePos(b))
           => FilePos(a) < FilePos(b)

\* C10, amended: before any sort, if the task of A completed before the
\* task of B, and the task of B completed after the orchestrator started
\* collecting results (the call of as_completed), then A precedes B in
\* files.  Entries whose tasks had both completed before that call are in
\* no particular order.
C10_OrderOfLateCompletions ==
  (Unsorted /\ ~listFailed) =>
     \A a, b \in Futures :
        (InFiles(a) /\ InFiles(b) /\ DonePos(a) < DonePos(b) /\ b \notin early)
           => FilePos(a) < FilePos(b)

C10_Witness ==
  /\ pc = "returned" /\ ~listFailed
  /\ Len(all_paths) = 3
  /\ Cardinality(early) = 1
  /\ \A f \in Futures : InFiles(f)
  /\ doneOrder = <<2, 1, 3>>
  /\ FilePos(2) = 1 /\ FilePos(1) = 2 /\ FilePos(3) = 3

====
